---- MODULE Spec2Model ----
(***************************************************************************)
(* OmegaZero, eval_scripts: the move codec of game.py (get_move_idx,       *)
(* get_move) and the Monte Carlo tree search of search.py (__MCTS).        *)
(*                                                                         *)
(* SpecCodec applies the codec to drawn moves and action ids.              *)
(* Spec drives __MCTS.search and __MCTS.get_policy over a small game.      *)
(***************************************************************************)
EXTENDS Integers, Sequences, FiniteSets, TLC

VARIABLES
    cOp,     \* codec: the call made last ("idle", "encode", "decode", "roundtrip")
    cMove,   \* codec: the chess.Move given to get_move_idx
    cPiece,  \* codec: the piece the board holds on the origin square (NoPiece: empty)
    cId,     \* codec: the action id given to get_move
    cIdx,    \* codec: what get_move_idx returned or raised
    cOut,    \* codec: what get_move returned or raised
    c_puct,         \* __MCTS.c_puct
    Q,              \* __MCTS.Q: position hash -> action id -> mean value
    N,              \* __MCTS.N: position hash -> action id -> visit count
    P,              \* __MCTS.P: position hash -> action id -> prior
    visited_nodes,  \* __MCTS.visited_nodes
    position,       \* the chess.Board the running search call was given
    frames,         \* the search calls waiting for their recursive call
    pc,             \* "idle", "call", "return", "done", "error", "policy"
    ret,            \* the value the search call that ended last returned
    pi,             \* the position get_policy was given, what it returned or raised
    numSearches,    \* top-level search calls made so far
    call,           \* what the top-level search call in progress has done
    s,              \* the game state tensor, one array shared by all its users
    upd,            \* the update_game_state call made on its own, and its result
    num_sims,           \* self_play: num_sims
    sims,               \* self_play: the searches made for the ply so far
    game_position,      \* self_play: position, the chess.Board of the game
    training_examples,  \* self_play: training_examples
    sp,                 \* self_play: "init", "raised", "sims", "returned", "error"
    created             \* self_play: the objects it has created so far

codecVars == <<cOp, cMove, cPiece, cId, cIdx, cOut>>

mctsVars ==
    <<c_puct, Q, N, P, visited_nodes, position, frames, pc, ret, pi,
      numSearches, call, s, upd>>

selfPlayVars ==
    <<num_sims, sims, game_position, training_examples, sp, created>>

vars == <<codecVars, mctsVars, selfPlayVars>>

(***************************************************************************)
(* Constants of game.py and of the chess library it uses.                  *)
(***************************************************************************)
NUM_RANK == 8
NUM_FILE == 8
NUM_SQ == 64
MAX_NUM_SQ_MOVED == 7
KNIGHT_MOVE_OFFSET == 56
UNDERPROMOTION_OFFSET == 64
NUM_PLANES == 73
NUM_UNDERPROMOTION_TYPES == 3
NUM_ACTIONS == 4672

PAWN == 1
KNIGHT == 2
BISHOP == 3
ROOK == 4
QUEEN == 5
KING == 6
WHITE == TRUE
BLACK == FALSE

\* chess.Move.promotion is None for a move that promotes nothing.
NoPromotion == 0

\* How far beyond [0, NUM_ACTIONS) the action ids given to get_move reach.
IdSlack == 130

Squares == 0 .. (NUM_SQ - 1)
Promotions == {NoPromotion, KNIGHT, BISHOP, ROOK, QUEEN}
PieceTypes == PAWN .. KING

Move(from, to, promo) ==
    [from_square |-> from, to_square |-> to, promotion |-> promo]

Piece(pt, color) == [piece_type |-> pt, color |-> color]

\* Board.piece_at returns None for an empty square.
NoPiece == [piece_type |-> 0, color |-> WHITE]

Abs(x) == IF x < 0 THEN -x ELSE x

Sign(x) == IF x > 0 THEN 1 ELSE IF x < 0 THEN -1 ELSE 0

\* A returned value, or the exception raised.
Ok(v) == [err |-> "none", val |-> v]
Raise(e) == [err |-> e, val |-> 0]

get_file(sq) == sq % 8

get_rank(sq) == sq \div 8

get_sq(rank, file) == NUM_FILE * rank + file

\* class __RayDir
Ray_NW == 0
Ray_N == 1
Ray_NE == 2
Ray_E == 3
Ray_SE == 4
Ray_S == 5
Ray_SW == 6
Ray_W == 7

\* class __KnightDir
NNE == 0
NEE == 1
SEE == 2
SSE == 3
SSW == 4
SWW == 5
NWW == 6
NNW == 7

RayDir(d) == [kind |-> "ray", dir |-> d]
KnightDir(d) == [kind |-> "knight", dir |-> d]
NoDir == [kind |-> "none", dir |-> 0]
DirError == [kind |-> "error", dir |-> 0]

\* get_move_idx.get_move_dir: the type and direction of a move.
get_move_dir(start_sq, target_sq) ==
    LET sq_diff == target_sq - start_sq
        start_rank == get_rank(start_sq)
        start_file == get_file(start_sq)
        target_rank == get_rank(target_sq)
        target_file == get_file(target_sq)
        on_diagonal ==
            \/ start_rank - start_file = target_rank - target_file
            \/ start_rank + start_file = target_rank + target_file
    IN  IF sq_diff = 0 THEN NoDir
        ELSE IF on_diagonal /\ sq_diff % 7 = 0
        THEN (IF sq_diff > 0 THEN RayDir(Ray_NW) ELSE RayDir(Ray_SE))
        ELSE IF on_diagonal /\ sq_diff % 9 = 0
        THEN (IF sq_diff > 0 THEN RayDir(Ray_NE) ELSE RayDir(Ray_SW))
        ELSE IF sq_diff % 8 = 0
        THEN (IF sq_diff > 0 THEN RayDir(Ray_N) ELSE RayDir(Ray_S))
        ELSE IF start_rank = target_rank
        THEN (IF sq_diff > 0 THEN RayDir(Ray_E) ELSE RayDir(Ray_W))
        ELSE IF sq_diff % 17 = 0
        THEN (IF sq_diff > 0 THEN KnightDir(NNE) ELSE KnightDir(SSW))
        ELSE IF sq_diff % 15 = 0
        THEN (IF sq_diff > 0 THEN KnightDir(NNW) ELSE KnightDir(SSE))
        ELSE IF sq_diff % 10 = 0
        THEN (IF sq_diff > 0 THEN KnightDir(NEE) ELSE KnightDir(SWW))
        ELSE IF sq_diff % 6 = 0
        THEN (IF sq_diff > 0 THEN KnightDir(NWW) ELSE KnightDir(SEE))
        ELSE DirError

\* The plane of an underpromotion with the wrong promotion piece added.
UnderpromotionPlaneNoPiece(dir_idx, promotion) ==
    UNDERPROMOTION_OFFSET + dir_idx * NUM_UNDERPROMOTION_TYPES

\* get_move_idx, lines 148-151: the plane of an underpromotion.
UnderpromotionPlane(dir_idx, promotion) ==
    LET underpromotion_idx == promotion - KNIGHT
    IN  UNDERPROMOTION_OFFSET + dir_idx * NUM_UNDERPROMOTION_TYPES
            + underpromotion_idx

\* get_move_idx, lines 156-164: the plane of a ray move that is no underpromotion.
RayPlane(dir, from_square, to_square) ==
    LET start_rank == get_rank(from_square)
        target_rank == get_rank(to_square)
        num_sq_moved ==
            IF start_rank # target_rank
            THEN Abs(target_rank - start_rank)
            ELSE Abs(get_file(to_square) - get_file(from_square))
    IN  dir * MAX_NUM_SQ_MOVED + (num_sq_moved - 1)

\* get_move_idx: the move index of a chess.Move, or the error raised.
get_move_idx(move) ==
    LET dir == get_move_dir(move.from_square, move.to_square)
    IN  IF dir.kind = "error" THEN Raise("ValueError")
        ELSE IF dir.kind = "ray"
        THEN IF move.promotion # NoPromotion /\ move.promotion # QUEEN
             THEN IF dir.dir \in {Ray_NE, Ray_SW}
                  THEN Ok(UnderpromotionPlane(2, move.promotion) * NUM_SQ
                              + move.from_square)
                  ELSE IF dir.dir \in {Ray_N, Ray_S}
                  THEN Ok(UnderpromotionPlane(1, move.promotion) * NUM_SQ
                              + move.from_square)
                  ELSE IF dir.dir \in {Ray_NW, Ray_SE}
                  THEN Ok(UnderpromotionPlane(0, move.promotion) * NUM_SQ
                              + move.from_square)
                  ELSE Raise("ValueError")
             ELSE Ok(RayPlane(dir.dir, move.from_square, move.to_square) * NUM_SQ
                         + move.from_square)
        ELSE IF dir.kind = "knight"
        THEN Ok((KNIGHT_MOVE_OFFSET + dir.dir) * NUM_SQ + move.from_square)
        ELSE Raise("ValueError")

\* get_move: the step per ray direction NW, N, NE, E, SE, S, SW, W.
RAY_COMPASS_ROSE == <<7, 8, 9, 1, -7, -8, -9, -1>>

\* get_move: the step per knight direction NNE, NEE, SEE, SSE, SSW, SWW, NWW, NNW.
KNIGHT_COMPASS_ROSE == <<17, 10, -6, -15, -17, -10, 6, 15>>

RANK8 == 7
RANK1 == 0
RANK7 == 6

\* The plane test of the underpromotion branch with the upper bound let in.
IsUnderpromotionPlaneInclusive(plane_idx) ==
    UNDERPROMOTION_OFFSET <= plane_idx /\ plane_idx <= NUM_PLANES

\* get_move, line 205: the planes of the underpromotion branch.
IsUnderpromotionPlane(plane_idx) ==
    UNDERPROMOTION_OFFSET <= plane_idx /\ plane_idx < NUM_PLANES

\* The promotion piece taken from the direction part of the plane.
promotion_of_direction(plane_idx) ==
    KNIGHT + ((plane_idx - UNDERPROMOTION_OFFSET) \div NUM_UNDERPROMOTION_TYPES)

\* get_move, lines 221-223: the piece an underpromotion plane promotes to.
promotion_of_plane(plane_idx) ==
    KNIGHT + ((plane_idx - UNDERPROMOTION_OFFSET) % NUM_UNDERPROMOTION_TYPES)

\* get_move: the chess.Move of a move index on a board whose origin square
\* holds `piece`, or the error raised.
get_move(piece, move_idx) ==
    LET from_square == move_idx % NUM_SQ
        plane_idx == move_idx \div NUM_SQ
    IN  IF 0 <= plane_idx /\ plane_idx < KNIGHT_MOVE_OFFSET
        THEN LET dir_idx == plane_idx \div MAX_NUM_SQ_MOVED
                 num_sq_moved == (plane_idx % MAX_NUM_SQ_MOVED) + 1
                 step_inc == RAY_COMPASS_ROSE[dir_idx + 1]
                 to_square == from_square + num_sq_moved * step_inc
             IN  IF get_rank(to_square) = RANK8 \/ get_rank(to_square) = RANK1
                 THEN IF piece = NoPiece
                      THEN Raise("AttributeError")
                      ELSE IF piece.piece_type = PAWN
                      THEN Ok(Move(from_square, to_square, QUEEN))
                      ELSE Ok(Move(from_square, to_square, NoPromotion))
                 ELSE Ok(Move(from_square, to_square, NoPromotion))
        ELSE IF IsUnderpromotionPlane(plane_idx)
        THEN LET dir_idx == (plane_idx - UNDERPROMOTION_OFFSET)
                                \div NUM_UNDERPROMOTION_TYPES
                 start_rank == get_rank(from_square)
                 dir == IF dir_idx = 2
                        THEN (IF start_rank = RANK7 THEN Ray_NE ELSE Ray_SW)
                        ELSE IF dir_idx = 1
                        THEN (IF start_rank = RANK7 THEN Ray_N ELSE Ray_S)
                        ELSE (IF start_rank = RANK7 THEN Ray_NW ELSE Ray_SE)
                 step_inc == RAY_COMPASS_ROSE[dir + 1]
             IN  Ok(Move(from_square, from_square + step_inc,
                         promotion_of_plane(plane_idx)))
        ELSE IF KNIGHT_MOVE_OFFSET <= plane_idx /\ plane_idx < UNDERPROMOTION_OFFSET
        THEN Ok(Move(from_square,
                     from_square + KNIGHT_COMPASS_ROSE[plane_idx - KNIGHT_MOVE_OFFSET + 1],
                     NoPromotion))
        ELSE Raise("ValueError")

(***************************************************************************)
(* The shapes of the moves of the rules engine (Board.legal_moves): which  *)
(* move a piece standing on the origin square can make in some position.   *)
(***************************************************************************)
RankDist(a, b) == Abs(get_rank(a) - get_rank(b))
FileDist(a, b) == Abs(get_file(a) - get_file(b))

OnLine(a, b) == a # b /\ (get_rank(a) = get_rank(b) \/ get_file(a) = get_file(b))
OnDiagonal(a, b) == a # b /\ RankDist(a, b) = FileDist(a, b)
KnightShape(a, b) ==
    \/ RankDist(a, b) = 1 /\ FileDist(a, b) = 2
    \/ RankDist(a, b) = 2 /\ FileDist(a, b) = 1

PawnShape(color, a, b, promo) ==
    LET fwd == IF color = WHITE THEN 1 ELSE -1
        home == IF color = WHITE THEN 1 ELSE 6
        last == IF color = WHITE THEN RANK8 ELSE RANK1
    IN  /\ get_rank(a) \in 1 .. 6
        /\ \/ get_rank(b) = get_rank(a) + fwd /\ FileDist(a, b) <= 1
           \/ get_rank(b) = get_rank(a) + 2 * fwd /\ FileDist(a, b) = 0
                  /\ get_rank(a) = home
        /\ (promo # NoPromotion) <=> (get_rank(b) = last)

CastlingShape(a, b) ==
    \/ a = 4 /\ b \in {2, 6}
    \/ a = 60 /\ b \in {58, 62}

CanMove(piece, m) ==
    LET a == m.from_square
        b == m.to_square
    IN  IF piece.piece_type = PAWN THEN PawnShape(piece.color, a, b, m.promotion)
        ELSE /\ m.promotion = NoPromotion
             /\ CASE piece.piece_type = KNIGHT -> KnightShape(a, b)
                  [] piece.piece_type = BISHOP -> OnDiagonal(a, b)
                  [] piece.piece_type = ROOK -> OnLine(a, b)
                  [] piece.piece_type = QUEEN -> OnLine(a, b) \/ OnDiagonal(a, b)
                  [] piece.piece_type = KING ->
                         \/ a # b /\ RankDist(a, b) <= 1 /\ FileDist(a, b) <= 1
                         \/ CastlingShape(a, b)
                  [] OTHER -> FALSE

Pieces == {Piece(pt, c) : pt \in PieceTypes, c \in {WHITE, BLACK}}

AllMoves == {Move(a, b, p) : a \in Squares, b \in Squares, p \in Promotions}

(***************************************************************************)
(* Numbers.  The tables of search.py hold floating point numbers; they are *)
(* modelled as exact fractions <<n, d>> with d > 0 and gcd(n, d) = 1, so   *)
(* rounding is left out.  <<1, 0>> is inf and <<0, 0>> is nan, which numpy *)
(* gives for x / 0 and 0 / 0.                                              *)
(***************************************************************************)
\* The member of a set of one member.  An operator reads its arguments as
\* often as it names them; The({e(x) : x \in {a}}) works out a once.
The(S) == CHOOSE x \in S : TRUE

RECURSIVE Gcd(_, _)
Gcd(a, b) ==
    The({IF y = 0 THEN x ELSE Gcd(y, x % y) : x \in {a}, y \in {b}})

Frac(n, d) ==
    The({LET g == Gcd(Abs(x), Abs(y))
             sgn == IF y < 0 THEN -1 ELSE 1
         IN  IF g = 0 THEN <<0, 0>> ELSE <<(sgn * x) \div g, (sgn * y) \div g>> :
         x \in {n}, y \in {d}})

Whole(n) == <<n, 1>>
NaN == <<0, 0>>
IsFinite(x) == x[2] > 0

FNeg(a) == The({<<-x[1], x[2]>> : x \in {a}})
FAbs(a) == The({<<Abs(x[1]), x[2]>> : x \in {a}})

FAdd(a, b) ==
    The({IF x = NaN \/ y = NaN THEN NaN
         ELSE IF ~IsFinite(x) /\ ~IsFinite(y) THEN (IF x = y THEN x ELSE NaN)
         ELSE IF ~IsFinite(x) THEN x
         ELSE IF ~IsFinite(y) THEN y
         ELSE Frac(x[1] * y[2] + y[1] * x[2], x[2] * y[2]) :
         x \in {a}, y \in {b}})

FSub(x, y) == FAdd(x, FNeg(y))

FMul(a, b) ==
    The({IF x = NaN \/ y = NaN THEN NaN
         ELSE IF ~IsFinite(x) \/ ~IsFinite(y)
         THEN (IF x[1] * y[1] = 0 THEN NaN ELSE <<Sign(x[1] * y[1]), 0>>)
         ELSE Frac(x[1] * y[1], x[2] * y[2]) :
         x \in {a}, y \in {b}})

\* x / y as numpy divides: x / 0 is inf (nan for 0 / 0), and no error.
FDiv(a, b) ==
    The({IF x = NaN \/ y = NaN THEN NaN
         ELSE IF ~IsFinite(y) THEN (IF IsFinite(x) THEN Whole(0) ELSE NaN)
         ELSE IF ~IsFinite(x)
         THEN (IF y[1] < 0 THEN FNeg(x) ELSE x)
         ELSE IF y[1] = 0 THEN (IF x[1] = 0 THEN NaN ELSE <<Sign(x[1]), 0>>)
         ELSE Frac(x[1] * y[2], x[2] * y[1]) :
         x \in {a}, y \in {b}})

\* x < y and x <= y for finite x and y.
FLess(x, y) == x[1] * y[2] < y[1] * x[2]
FLeq(x, y) == x[1] * y[2] <= y[1] * x[2]

\* The members of a finite set of numbers in ascending order.
RECURSIVE Ascending(_)
Ascending(S) ==
    IF S = {} THEN <<>>
    ELSE LET x == CHOOSE y \in S : \A z \in S : y <= z
         IN  <<x>> \o Ascending(S \ {x})

\* np.sum: the sum of the entries of f at the first n indices of a list.
RECURSIVE SumFirst(_, _, _)
SumFirst(f, indices, n) ==
    IF n = 0 THEN 0 ELSE f[indices[n]] + SumFirst(f, indices, n - 1)

RECURSIVE FSumFirst(_, _, _)
FSumFirst(f, indices, n) ==
    IF n = 0 THEN Whole(0)
    ELSE FAdd(f[indices[n]], FSumFirst(f, indices, n - 1))

(***************************************************************************)
(* The rules engine (the chess library) as search.py uses it, over a small *)
(* game: four boards that the knight moves Ng1-f3, Ng8-f6, Nf3-g1, Nf6-g8  *)
(* lead through and back to the first (a position repeats after four       *)
(* plies), two mates by White, a mate by Black and a stalemate.            *)
(***************************************************************************)
\* A game ends as a draw when its position has occurred RepLimit times
\* (Board.outcome: fivefold repetition).
RepLimit == 3

Boards == {"B0", "B1", "B2", "B3", "MW", "MR", "MB", "SD", "X"}

\* Board.turn
Turn(b) == IF b \in {"B0", "B2", "MB"} THEN WHITE ELSE BLACK

Entry(m, piece, to) == [move |-> m, piece |-> piece, to |-> to]

\* Board.legal_moves, in the order the board generates them, with the piece
\* that moves and the board that Board.push of the move gives.
LegalEntries(b) ==
    CASE b = "B0" -> <<Entry(Move(6, 21, NoPromotion), Piece(KNIGHT, WHITE), "B1"),
                       Entry(Move(3, 39, NoPromotion), Piece(QUEEN, WHITE), "MW")>>
      [] b = "B1" -> <<Entry(Move(62, 45, NoPromotion), Piece(KNIGHT, BLACK), "B2"),
                       Entry(Move(59, 31, NoPromotion), Piece(QUEEN, BLACK), "MB")>>
      [] b = "B2" -> <<Entry(Move(21, 6, NoPromotion), Piece(KNIGHT, WHITE), "B3"),
                       Entry(Move(49, 57, QUEEN), Piece(PAWN, WHITE), "SD"),
                       Entry(Move(49, 57, ROOK), Piece(PAWN, WHITE), "MR")>>
      [] b = "B3" -> <<Entry(Move(45, 62, NoPromotion), Piece(KNIGHT, BLACK), "B0")>>
      [] OTHER -> <<>>

Range(seq) == {seq[i] : i \in DOMAIN seq}

\* A piece standing on a square.
On(sq, piece_type, color) == [sq |-> sq, piece |-> Piece(piece_type, color)]

\* The pieces every board of the game holds: the kings on e1 and e8, a white
\* rook on a1 and a black rook on h8.
Standing ==
    {On(4, KING, WHITE), On(60, KING, BLACK), On(0, ROOK, WHITE),
     On(63, ROOK, BLACK)}

\* Board.piece_map: the pieces of a board.
Placement(b) ==
    Standing \cup
    CASE b = "B0" -> {On(6, KNIGHT, WHITE), On(3, QUEEN, WHITE), On(49, PAWN, WHITE),
                      On(62, KNIGHT, BLACK), On(59, QUEEN, BLACK)}
      [] b = "B1" -> {On(21, KNIGHT, WHITE), On(3, QUEEN, WHITE), On(49, PAWN, WHITE),
                      On(62, KNIGHT, BLACK), On(59, QUEEN, BLACK)}
      [] b = "B2" -> {On(21, KNIGHT, WHITE), On(3, QUEEN, WHITE), On(49, PAWN, WHITE),
                      On(45, KNIGHT, BLACK), On(59, QUEEN, BLACK)}
      [] b = "B3" -> {On(6, KNIGHT, WHITE), On(3, QUEEN, WHITE), On(49, PAWN, WHITE),
                      On(45, KNIGHT, BLACK), On(59, QUEEN, BLACK)}
      [] b = "MW" -> {On(6, KNIGHT, WHITE), On(39, QUEEN, WHITE), On(49, PAWN, WHITE),
                      On(62, KNIGHT, BLACK), On(59, QUEEN, BLACK)}
      [] b = "MR" -> {On(21, KNIGHT, WHITE), On(3, QUEEN, WHITE), On(57, ROOK, WHITE),
                      On(45, KNIGHT, BLACK), On(59, QUEEN, BLACK)}
      [] b = "MB" -> {On(21, KNIGHT, WHITE), On(3, QUEEN, WHITE), On(49, PAWN, WHITE),
                      On(62, KNIGHT, BLACK), On(31, QUEEN, BLACK)}
      [] b = "SD" -> {On(21, KNIGHT, WHITE), On(3, QUEEN, WHITE), On(57, QUEEN, WHITE),
                      On(45, KNIGHT, BLACK), On(59, QUEEN, BLACK)}
      [] OTHER -> {}

\* Board.piece_map of every board, by square (None for an empty square).
PieceMap ==
    [b \in Boards |->
        [sq \in Squares |->
            IF \E e \in Placement(b) : e.sq = sq
            THEN (CHOOSE e \in Placement(b) : e.sq = sq).piece
            ELSE NoPiece]]

\* Board.piece_at
piece_at(b, sq) == PieceMap[b][sq]

\* Board.push on a board: the board a legal move leads to; the chess library
\* applies a move that is not legal too, which gives a board outside the game.
PushBoard(b, m) ==
    IF \E e \in Range(LegalEntries(b)) : e.move = m
    THEN (CHOOSE e \in Range(LegalEntries(b)) : e.move = m).to
    ELSE "X"

\* A chess.Board: the board and the stack of the boards before it.
Position(b, stack) == [board |-> b, stack |-> stack]

\* Board.push
push(pos, m) ==
    Position(PushBoard(pos.board, m), Append(pos.stack, pos.board))

\* How many times the board of the position has occurred in its game.
Repetitions(pos) ==
    1 + Cardinality({i \in DOMAIN pos.stack : pos.stack[i] = pos.board})

\* chess.Outcome.winner: a colour, or None.
Winner(c) == [some |-> TRUE, color |-> c]
NoWinner == [some |-> FALSE, color |-> BLACK]

\* Board.outcome(): None while the game goes on.
NoOutcome == [ended |-> FALSE, winner |-> NoWinner]
Outcome(w) == [ended |-> TRUE, winner |-> w]

outcome(pos) ==
    CASE pos.board \in {"MW", "MR"} -> Outcome(Winner(WHITE))
      [] pos.board = "MB" -> Outcome(Winner(BLACK))
      [] pos.board \in {"SD", "X"} -> Outcome(NoWinner)
      [] OTHER -> IF Repetitions(pos) >= RepLimit
                  THEN Outcome(NoWinner)
                  ELSE NoOutcome

\* chess.polyglot.zobrist_hash: board, side to move, castling and en passant
\* rights, and nothing of the moves played.
zobrist_hash(pos) == pos.board

\* game.ended
ended(pos) == outcome(pos).ended

\* game.generate_moves: the legal moves of a position by their indices.
generate_moves(pos) ==
    [i \in DOMAIN LegalEntries(pos.board) |->
        get_move_idx(LegalEntries(pos.board)[i].move).val]

\* Python's truth value of a chess.Outcome.winner: None and chess.BLACK
\* (False) are false, chess.WHITE (True) is true.
Truthy(w) == w.some /\ w.color = WHITE

\* Board.fullmove_number: 1 at the start, one more after each move of Black.
fullmove_number(pos) ==
    1 + Cardinality({i \in DOMAIN pos.stack : Turn(pos.stack[i]) = BLACK})

\* Board.halfmove_clock: the plies since the last pawn move or capture; the
\* pawn moves of the game are the two promotions.
halfmove_clock(pos) ==
    IF pos.board \in {"SD", "MR"} THEN 0 ELSE Len(pos.stack)

\* Board.castling_rights, as the set of the rook squares that keep the right:
\* White may castle queen-side (a1), Black king-side (h8).
BB_A1 == 0
BB_H1 == 7
BB_A8 == 56
BB_H8 == 63
castling_rights(pos) == IF pos.board = "X" THEN {} ELSE {BB_A1, BB_H8}

\* Board.is_repetition(count): the position has occurred count times, the
\* occurrence on the board included.
is_repetition(pos, count) == Repetitions(pos) >= count

(***************************************************************************)
(* search.py: the game state tensor.  A tensor of shape 8 x 8 x 21 is kept *)
(* as the set of the cells of the piece planes that hold 1 (`ones`) and    *)
(* the number each later plane is filled with by np.full (`fill`).         *)
(***************************************************************************)
NUM_PLAYER == 2
NUM_PIECES == 6
T == 1
M == 14
L == 7

PIECE_OFFSET == NUM_PIECES * NUM_PLAYER
FIRST_REP_IDX == 0
SECOND_REP_IDX == 1

\* __get_constant_planes: LayerIdx
COLOR == 0
FULL_COUNT == 1
HALF_COUNT == 2
W_QS_CASTLE == 3
W_KS_CASTLE == 4
B_QS_CASTLE == 5
B_KS_CASTLE == 6

\* get_piece_idx with the planes given by colour, White first, whoever is
\* to move.
get_piece_idx_by_colour(turn, piece, player) ==
    NUM_PIECES * (IF player = WHITE THEN 0 ELSE 1) + (piece - PAWN)

\* __get_time_plane: get_piece_idx
get_piece_idx(turn, piece, player) ==
    LET player_idx == IF player = turn THEN 0 ELSE 1
        piece_idx == piece - PAWN
    IN  NUM_PIECES * player_idx + piece_idx

\* __get_time_plane, lines 129-159: the cells of the piece planes set to 1,
\* as <<row, file, plane>>; np.flipud turns the rows over for White to move.
PieceCells(pos) ==
    LET marked ==
            {<<rank, file,
               get_piece_idx(Turn(pos.board),
                             piece_at(pos.board, get_sq(rank, file)).piece_type,
                             piece_at(pos.board, get_sq(rank, file)).color)>> :
                 <<rank, file>> \in
                     {rf \in (0 .. NUM_RANK - 1) \X (0 .. NUM_FILE - 1) :
                         piece_at(pos.board, get_sq(rf[1], rf[2])) # NoPiece}}
    IN  IF Turn(pos.board) = WHITE
        THEN {<<(NUM_RANK - 1) - c[1], c[2], c[3]>> : c \in marked}
        ELSE marked

\* __get_time_plane, lines 161-171: the number a repetition plane is filled
\* with.
RepetitionFill(pos, rep_idx) ==
    IF is_repetition(pos, 1)
    THEN (IF rep_idx = FIRST_REP_IDX THEN 1 ELSE 0)
    ELSE IF is_repetition(pos, 2)
    THEN (IF rep_idx = SECOND_REP_IDX THEN 1 ELSE 0)
    ELSE 0

\* 1 - board.turn with the colour given the other way round.
ColorFillOfTurn(turn) == IF turn = WHITE THEN 1 ELSE 0

\* __get_constant_planes, lines 187-189: 1 - board.turn.
ColorFill(turn) == IF turn = WHITE THEN 0 ELSE 1

\* int(bool(castling_rights & corner))
CastleFill(pos, corner) == IF corner \in castling_rights(pos) THEN 1 ELSE 0

\* __get_constant_planes: the number each of the L planes is filled with.
get_constant_planes(pos) ==
    [layer \in 0 .. (L - 1) |->
        CASE layer = COLOR -> ColorFill(Turn(pos.board))
          [] layer = FULL_COUNT -> fullmove_number(pos)
          [] layer = HALF_COUNT -> halfmove_clock(pos)
          [] layer = W_QS_CASTLE -> CastleFill(pos, BB_A1)
          [] layer = W_KS_CASTLE -> CastleFill(pos, BB_H1)
          [] layer = B_QS_CASTLE -> CastleFill(pos, BB_A8)
          [] OTHER -> CastleFill(pos, BB_H8)]

\* The tensor of a position: the latest time plane and the constant planes
\* (init_game_state, lines 68-76; update_game_state, lines 97-104).
game_state(pos) ==
    [ones |-> PieceCells(pos),
     fill |-> [plane \in PIECE_OFFSET .. (M * T + L - 1) |->
                  IF plane < M * T
                  THEN RepetitionFill(pos, plane - PIECE_OFFSET)
                  ELSE get_constant_planes(pos)[plane - M * T]]]

\* game_state[row, file, plane]
Cell(tensor, row, file, plane) ==
    IF plane < PIECE_OFFSET
    THEN (IF <<row, file, plane>> \in tensor.ones THEN 1 ELSE 0)
    ELSE tensor.fill[plane]

\* The values found in the 64 cells of one plane of the tensor.
PlaneValues(tensor, plane) ==
    IF plane < PIECE_OFFSET
    THEN LET set == {c \in tensor.ones : c[3] = plane}
         IN  (IF set # {} THEN {1} ELSE {})
                 \cup (IF Cardinality(set) < NUM_RANK * NUM_FILE
                       THEN {0} ELSE {})
    ELSE {tensor.fill[plane]}

\* update_game_state writing to a copy of the array: the array the caller
\* holds is as it was.
game_state_kept(tensor, pos) == tensor

\* update_game_state, lines 96-104: the array it was given, after the slices
\* of the time plane and of the constant planes were assigned for the
\* position.
game_state_updated(tensor, pos) == game_state(pos)

\* init_game_state: chess.Board()
StartPosition == Position("B0", <<>>)


(***************************************************************************)
(* The codec applied to drawn inputs.                                      *)
(***************************************************************************)
CodecInit ==
    /\ cOp = "idle"
    /\ cMove = Move(0, 0, NoPromotion)
    /\ cPiece = NoPiece
    /\ cId = 0
    /\ cIdx = Ok(0)
    /\ cOut = Ok(Move(0, 0, NoPromotion))

\* get_move_idx(move) for any two squares and promotion piece.
Encode ==
    /\ cOp = "idle"
    /\ \E m \in AllMoves :
        /\ cOp' = "encode"
        /\ cMove' = m
        /\ cIdx' = get_move_idx(m)
        /\ cPiece' = NoPiece
        /\ cId' = 0
        /\ cOut' = Ok(Move(0, 0, NoPromotion))
    /\ UNCHANGED <<mctsVars, selfPlayVars>>

\* get_move(board, get_move_idx(move)) on a board that holds `piece` on the
\* origin square of the move.
RoundTrip ==
    /\ cOp = "encode"
    /\ cIdx.err = "none"
    /\ \E piece \in Pieces \cup {NoPiece} :
        /\ cOp' = "roundtrip"
        /\ cPiece' = piece
        /\ cId' = cIdx.val
        /\ cOut' = get_move(piece, cIdx.val)
        /\ UNCHANGED <<cMove, cIdx>>
    /\ UNCHANGED <<mctsVars, selfPlayVars>>

\* get_move(board, move_idx) for any action id, in range or not.
Decode ==
    /\ cOp = "idle"
    /\ \E id \in (0 - IdSlack) .. (NUM_ACTIONS + IdSlack - 1),
          piece \in Pieces \cup {NoPiece} :
        /\ cOp' = "decode"
        /\ cId' = id
        /\ cPiece' = piece
        /\ cOut' = get_move(piece, id)
        /\ cMove' = Move(0, 0, NoPromotion)
        /\ cIdx' = Ok(0)
    /\ UNCHANGED <<mctsVars, selfPlayVars>>

CodecNext == Encode \/ RoundTrip \/ Decode

(***************************************************************************)
(* search.py: class __MCTS.                                                *)
(***************************************************************************)
DRAW_REWARD == 0
WIN_REWARD == 1
LOSS_REWARD == -1

\* How many top-level search calls are made.
MaxSearches == 5

\* The action ids the tables are followed at: the indices of the legal moves
\* of the game, and action ids that are the index of no legal move (id 0 is a
\* step north-west off the board from a1; every other id of the 4672 behaves
\* as these do).
LegalActionIds ==
    UNION {Range(generate_moves(Position(b, <<>>))) : b \in Boards}

IllegalActionIds == {0, NUM_ACTIONS - 1}

TrackedActions == LegalActionIds \cup IllegalActionIds

\* np.arange(_NUM_ACTIONS), at the action ids that are followed.
ActionList == Ascending(TrackedActions)

\* The sum of a vector over the action ids.
SumOver(f) == The({SumFirst(g, ActionList, Len(ActionList)) : g \in {f}})
FSumOver(f) == The({FSumFirst(g, ActionList, Len(ActionList)) : g \in {f}})

\* np.zeros(_NUM_ACTIONS)
Zeros == [a \in TrackedActions |-> 0]
FZeros == [a \in TrackedActions |-> Whole(0)]

\* The exploration constants self_play is given.
CPuctChoices == {Whole(1)}

\* model.predict: the value head is a tanh, a number in [-1, 1].
ValueChoices == {Whole(-1), Frac(1, 2), Whole(1)}

\* model.predict: the policy head is a softmax over the 4672 actions, legal
\* or not.  Three policies per position: the same prior everywhere; half of
\* the mass on the legal move generated last; all of the mass on actions
\* that are not legal (the priors of the legal moves underflow to 0).
PolicyChoices(pos) ==
    LET legal == generate_moves(pos)
        last == IF Len(legal) = 0 THEN -1 ELSE legal[Len(legal)]
    IN  { [a \in TrackedActions |-> Frac(1, 16)],
          [a \in TrackedActions |-> IF a = last THEN Frac(1, 2) ELSE Frac(1, 32)],
          [a \in TrackedActions |->
              IF a \in IllegalActionIds THEN Frac(1, 2) ELSE Whole(0)] }

EmptyTable == [h \in {} |-> FZeros]

\* __MCTS.__get_node_count
get_node_count(position_hash) == SumOver(N[position_hash])

\* search, lines 281-284: U of action a is greater than U of action b, with
\* U = Q + c_puct * P * sqrt(N_sum) / (1 + N).  With A = Q[a] - Q[b] and
\* B = K[b] - K[a], K = c_puct * P / (1 + N), this is A > B * sqrt(N_sum),
\* decided on the squares.
UGreater(position_hash, first, second) ==
    \E a \in {first}, b \in {second}, N_sum \in {get_node_count(position_hash)} :
        LET K(x) == FDiv(FMul(c_puct, P[position_hash][x]),
                         Whole(1 + N[position_hash][x]))
        IN  \E A \in {FSub(Q[position_hash][a], Q[position_hash][b])},
               B \in {FSub(K(b), K(a))} :
                LET A2 == A[1] * A[1] * B[2] * B[2]
                    B2n == B[1] * B[1] * N_sum * A[2] * A[2]
                IN  IF B[1] <= 0 \/ N_sum = 0
                    THEN (IF A[1] > 0 THEN TRUE ELSE A2 < B2n)
                    ELSE (IF A[1] <= 0 THEN FALSE ELSE A2 > B2n)

\* search, lines 275-286: the first action of the list with the largest U.
RECURSIVE SelectFrom(_, _, _, _)
SelectFrom(position_hash, actions, i, best_a) ==
    IF i > Len(actions) THEN best_a
    ELSE SelectFrom(position_hash, actions, i + 1,
                    IF UGreater(position_hash, actions[i], best_a)
                    THEN actions[i] ELSE best_a)

\* The first action of the list, whatever the statistics are.
select_first(position_hash, actions) ==
    IF Len(actions) = 0 THEN -1 ELSE actions[1]

select_action(position_hash, actions) ==
    IF Len(actions) = 0 THEN -1
    ELSE SelectFrom(position_hash, actions, 2, actions[1])

\* search, lines 252-258: the value returned for a position that has ended.
TerminalValue(pos) ==
    LET winner == outcome(pos).winner
    IN  IF Truthy(winner)
        THEN LET reward == IF winner.color = Turn(pos.board)
                           THEN WIN_REWARD ELSE LOSS_REWARD
             IN  Whole(0 - reward)
        ELSE Whole(DRAW_REWARD)

\* The value of the model returned as it is.
ExpandReturnSame(v) == v

\* search, line 271: what the call that expands a node returns.
ExpandReturn(v) == FNeg(v)

\* The value of the child returned as it is.
BackupReturnSame(v) == v

\* search, line 298: what the call returns after the backup.
BackupReturn(v) == FNeg(v)

\* The running mean replaced by a running sum.
QUpdateSum(q, n, v) == FAdd(q, v)

\* search, lines 293-295: the new mean value of an action taken n times.
QUpdate(q, n, v) == FDiv(FAdd(FMul(Whole(n), q), v), Whole(n + 1))

\* The visit count left as it was.
NUpdateNone(n) == n

\* search, line 296: the new visit count of the action taken.
NUpdate(n) == n + 1

\* update_game_state, lines 91-94, on the position: the move of the index is
\* played; `position.is_legal` is a bound method, which is true, so nothing
\* is raised for a move that is not legal.
update_game_state(pos, a) ==
    LET move == get_move(piece_at(pos.board, a % NUM_SQ), a)
    IN  IF move.err = "none" THEN Ok(push(pos, move.val)) ELSE move

\* get_policy, lines 236-247.
get_policy(pos) ==
    LET position_hash == zobrist_hash(pos)
    IN  IF position_hash \notin DOMAIN N THEN Raise("KeyError")
        ELSE
        LET legal_moves == Range(generate_moves(pos))
            scaled(N_sum) ==
                [a \in TrackedActions |-> FDiv(P[position_hash][a], Whole(N_sum))]
            masked(pi0) ==
                [a \in TrackedActions |->
                    IF a \in legal_moves THEN pi0[a] ELSE Whole(0)]
            norm(pi1) == FSumOver([a \in TrackedActions |-> FAbs(pi1[a])])
        IN  The({Ok([a \in TrackedActions |-> FDiv(pi1[a], norm1)]) :
                 <<pi1, norm1>> \in
                     {<<pi2, norm(pi2)>> :
                         pi2 \in {masked(scaled(get_node_count(position_hash)))}}})

\* get_policy with pi the row of P itself: the row holds pi afterwards.
get_policy_P_in_place(position_hash, result) ==
    IF result.err = "none" THEN [P EXCEPT ![position_hash] = result.val] ELSE P

\* get_policy, lines 238-245: the table P after the call.  The division of
\* line 238 makes a new array pi, and the writes of lines 244 and 245 go to
\* it.
get_policy_P(position_hash, result) == P

\* model.predict(s): the tensor the model was given and what it returned.
Prediction(tensor, policy, v) == [s |-> tensor, policy |-> policy, v |-> v]
NoPrediction == Prediction(game_state(StartPosition), FZeros, Whole(0))

\* What a top-level search call has done so far: the position it was given,
\* the tables when it was made, the model queries and recursive calls it
\* made, the action it selected at its root (-1: none), how many times it
\* selected an action at a node with the hash of its root, and the model
\* query made last.
NewCall(pos) ==
    [root |-> pos, Q0 |-> Q, N0 |-> N, P0 |-> P, visited0 |-> visited_nodes,
     queries |-> 0, recursions |-> 0, selected |-> -1, rootPasses |-> 0,
     predicted |-> NoPrediction]

NoCall ==
    [root |-> Position("B0", <<>>), Q0 |-> EmptyTable, N0 |-> EmptyTable,
     P0 |-> EmptyTable, visited0 |-> {},
     queries |-> 0, recursions |-> 0, selected |-> -1, rootPasses |-> 0,
     predicted |-> NoPrediction]

\* No update_game_state call has been made on its own.
NoUpdate == [position |-> StartPosition, a |-> -1, result |-> Ok(StartPosition)]

MctsInitWith(c) ==
    /\ c_puct = c
    /\ Q = EmptyTable
    /\ N = EmptyTable
    /\ P = EmptyTable
    /\ visited_nodes = {}
    /\ position = Position("B0", <<>>)
    /\ frames = <<>>
    /\ pc = "idle"
    /\ ret = Whole(0)
    /\ pi = [position |-> Position("B0", <<>>), result |-> Ok(FZeros)]
    /\ numSearches = 0
    /\ call = NoCall
    /\ s = game_state(StartPosition)
    /\ upd = NoUpdate

\* mcts = __MCTS(c_puct)
MctsInit == \E c \in CPuctChoices : MctsInitWith(c)

\* The boards search is called on from outside: the start of the game, and
\* the three ways a game ends on the board.
RootBoards == {"B0", "MW", "MB", "SD"}

\* A top-level call of search on a copy of the position of board b, with the
\* tensor of that position (self_play, lines 41-44: the first simulation of
\* a ply).
SearchCall ==
    /\ pc \in {"idle", "done"}
    /\ numSearches < MaxSearches
    /\ \E b \in RootBoards :
        /\ position' = Position(b, <<>>)
        /\ s' = game_state(Position(b, <<>>))
        /\ call' = NewCall(Position(b, <<>>))
    /\ pc' = "call"
    /\ numSearches' = numSearches + 1
    /\ UNCHANGED <<codecVars, selfPlayVars, c_puct, Q, N, P, visited_nodes, frames,
                   ret, pi, upd>>

\* A top-level call of search on the chess.Board the call before was given,
\* as that call left it (self_play, lines 41-44: the later simulations of a
\* ply).
SearchCallAgain ==
    /\ pc = "done"
    /\ numSearches < MaxSearches
    /\ call' = NewCall(position)
    /\ pc' = "call"
    /\ numSearches' = numSearches + 1
    /\ UNCHANGED <<codecVars, selfPlayVars, c_puct, Q, N, P, visited_nodes, position,
                   frames, ret, pi, s, upd>>

\* The call returns to the call that waits for it, or to the caller of search.
Returned == IF frames = <<>> THEN "done" ELSE "return"

\* search, lines 252-258: the position has ended.
SearchTerminal ==
    /\ pc = "call"
    /\ ended(position)
    /\ ret' = TerminalValue(position)
    /\ pc' = Returned
    /\ UNCHANGED <<codecVars, selfPlayVars, c_puct, Q, N, P, visited_nodes, position,
                   frames, pi, numSearches, call, s, upd>>

\* search, lines 260-271: the first visit of a position hash.
SearchExpand ==
    /\ pc = "call"
    /\ ~ended(position)
    /\ zobrist_hash(position) \notin visited_nodes
    /\ \E policy \in PolicyChoices(position), v \in ValueChoices :
        /\ visited_nodes' = visited_nodes \cup {zobrist_hash(position)}
        /\ P' = (zobrist_hash(position) :> policy) @@ P
        /\ Q' = (zobrist_hash(position) :> FZeros) @@ Q
        /\ N' = (zobrist_hash(position) :> Zeros) @@ N
        /\ ret' = ExpandReturn(v)
        /\ call' = [call EXCEPT !.queries = @ + 1,
                                !.predicted = Prediction(s, policy, v)]
    /\ pc' = Returned
    /\ UNCHANGED <<codecVars, selfPlayVars, c_puct, position, frames, pi,
                   numSearches, s, upd>>

\* search_position the board of the game itself: a move search plays is
\* played on the game.
position_aliased(game, searched) == searched

\* self_play, line 41: search_position = position.copy().  The board of the
\* game after a move was played on search_position.
position_copied(game, searched) == game

\* search, lines 273-290: an action is selected and played on the position,
\* and search is called on it.
SearchSelect ==
    /\ pc = "call"
    /\ ~ended(position)
    /\ zobrist_hash(position) \in visited_nodes
    /\ \E a \in {select_action(zobrist_hash(position), generate_moves(position))} :
       \E next \in {update_game_state(position, a)} :
       LET position_hash == zobrist_hash(position)
       IN  IF next.err = "none"
           THEN /\ position' = next.val
                /\ game_position' = position_copied(game_position, next.val)
                /\ s' = game_state_updated(s, next.val)
                /\ frames' = Append(frames, [position_hash |-> position_hash,
                                             a |-> a])
                /\ pc' = "call"
                /\ call' = [call EXCEPT
                       !.recursions = @ + 1,
                       !.selected = IF frames = <<>> THEN a ELSE @,
                       !.rootPasses =
                           IF position_hash = zobrist_hash(call.root)
                           THEN @ + 1 ELSE @]
           ELSE /\ pc' = "error"
                /\ UNCHANGED <<position, game_position, frames, call, s>>
    /\ UNCHANGED <<codecVars, c_puct, Q, N, P, visited_nodes, ret, pi,
                   numSearches, upd, num_sims, sims, training_examples, sp,
                   created>>

\* search, lines 292-298: the recursive call has returned v.
SearchBackup ==
    /\ pc = "return"
    /\ LET f == frames[Len(frames)]
           h == f.position_hash
           a == f.a
           v == ret
       IN  /\ Q' = [Q EXCEPT ![h][a] = QUpdate(Q[h][a], N[h][a], v)]
           /\ N' = [N EXCEPT ![h][a] = NUpdate(N[h][a])]
           /\ ret' = BackupReturn(v)
    /\ frames' = SubSeq(frames, 1, Len(frames) - 1)
    /\ pc' = IF Len(frames) = 1 THEN "done" ELSE "return"
    /\ UNCHANGED <<codecVars, selfPlayVars, c_puct, P, visited_nodes, position, pi,
                   numSearches, call, s, upd>>

\* get_policy on the position of board b (self_play, line 49).
GetPolicy ==
    /\ pc = "done"
    /\ \E b \in RootBoards :
       \E result \in {get_policy(Position(b, <<>>))} :
        /\ pi' = [position |-> Position(b, <<>>), result |-> result]
        /\ P' = get_policy_P(zobrist_hash(Position(b, <<>>)), result)
    /\ pc' = "policy"
    /\ UNCHANGED <<codecVars, selfPlayVars, c_puct, Q, N, visited_nodes, position,
                   frames, ret, numSearches, call, s, upd>>

\* The boards a game goes on from.
OpenBoards == {"B0", "B1", "B2", "B3"}

\* The action ids update_game_state is called with on its own: those whose
\* origin square holds a piece, the index of a legal move or not.
UpdateActions(b) == {a \in TrackedActions : piece_at(b, a % NUM_SQ) # NoPiece}

\* update_game_state(position, s, a) called on its own, before any search,
\* on the position of board b and its tensor (lines 81-104).
UpdateCall ==
    /\ pc = "idle"
    /\ \E b \in OpenBoards :
        \E a \in UpdateActions(b) :
            LET next == update_game_state(Position(b, <<>>), a)
            IN  /\ upd' = [position |-> Position(b, <<>>), a |-> a, result |-> next]
                /\ IF next.err = "none"
                   THEN /\ position' = next.val
                        /\ s' = game_state_updated(s, next.val)
                   ELSE /\ position' = Position(b, <<>>)
                        /\ s' = game_state(Position(b, <<>>))
    /\ pc' = "updated"
    /\ UNCHANGED <<codecVars, selfPlayVars, c_puct, Q, N, P, visited_nodes, frames,
                   ret, pi, numSearches, call>>

(***************************************************************************)
(* search.py: self_play.                                                   *)
(***************************************************************************)
\* The largest num_sims self_play is given.
MaxNumSims == 3

NumSimsChoices == 1 .. MaxNumSims

\* self_play has not been called.
SelfPlayIdle ==
    /\ num_sims = 0
    /\ sims = 0
    /\ game_position = StartPosition
    /\ training_examples = <<>>
    /\ sp = "init"
    /\ created = {}

\* No num_sims is turned down.
RejectsNone(n) == FALSE

\* self_play, line 32
RejectsNumSims(n) == n < 2

\* The last field of a training example: the player to move (line 53),
\* overwritten by the reward (lines 113-116).
PlayerField(turn) == [rewarded |-> FALSE, turn |-> turn, reward |-> 0]
RewardField(turn, reward) == [rewarded |-> TRUE, turn |-> turn, reward |-> reward]

\* [s, pi, position.turn] (line 53): the example holds the array s itself,
\* not a copy of it.  ply_position is the position the example was recorded
\* at, which the program does not keep.
Example(policy, pos) ==
    [s |-> "s", pi |-> policy, last |-> PlayerField(Turn(pos.board)),
     ply_position |-> pos]

\* example[0]: the array the example refers to, as it is now.
ExampleTensor(example) == s

\* __assign_rewards
assign_rewards(examples, winner) ==
    [i \in DOMAIN examples |->
        [examples[i] EXCEPT !.last =
            IF Truthy(winner)
            THEN RewardField(@.turn, IF @.turn = winner.color
                                     THEN WIN_REWARD ELSE LOSS_REWARD)
            ELSE RewardField(@.turn, DRAW_REWARD)]]

\* np.random.choice(_NUM_ACTIONS, p=pi) raises ValueError for a vector that
\* holds nan.
IsProbabilityVector(p) == \A a \in TrackedActions : IsFinite(p[a]) /\ p[a][1] >= 0

\* The actions np.random.choice can return.
Support(p) == {a \in TrackedActions : p[a][1] > 0}

\* self_play, lines 32-41: the call, up to the copy of the position made for
\* the searches of the first ply.
SelfPlayCall ==
    /\ sp = "init"
    /\ \E n \in NumSimsChoices :
        /\ num_sims' = n
        /\ IF RejectsNumSims(n)
           THEN /\ sp' = "raised"
                /\ UNCHANGED <<created, training_examples, game_position, s, position>>
           ELSE /\ sp' = "sims"
                /\ created' = {"training_examples", "mcts", "position", "s"}
                /\ training_examples' = <<>>
                /\ game_position' = StartPosition
                /\ s' = game_state(StartPosition)
                /\ position' = StartPosition
    /\ sims' = 0
    /\ UNCHANGED <<codecVars, c_puct, Q, N, P, visited_nodes, frames, pc, ret, pi,
                   numSearches, call, upd>>

\* self_play, lines 42-44: mcts.search(search_position, s, model).
SelfPlaySim ==
    /\ sp = "sims"
    /\ pc \in {"idle", "done"}
    /\ sims < num_sims
    /\ sims' = sims + 1
    /\ call' = NewCall(position)
    /\ pc' = "call"
    /\ numSearches' = numSearches + 1
    /\ UNCHANGED <<codecVars, c_puct, Q, N, P, visited_nodes, position, frames, ret,
                   pi, s, upd, num_sims, game_position, training_examples, sp,
                   created>>

\* self_play, lines 49-60 and 41: the policy of the position of the game, the
\* training example, the sampled move played on the game, and either the
\* rewards and the return or the copy of the position for the next ply.
SelfPlayPly ==
    /\ sp = "sims"
    /\ pc \in {"idle", "done"}
    /\ sims = num_sims
    /\ \E policy \in {get_policy(game_position)} :
       LET recorded == Append(training_examples,
                              Example(policy.val, game_position))
       IN  /\ pi' = [position |-> game_position, result |-> policy]
           /\ P' = get_policy_P(zobrist_hash(game_position), policy)
           /\ IF policy.err # "none"
              THEN /\ sp' = "error"
                   /\ UNCHANGED <<training_examples, game_position, s, position, sims>>
              ELSE IF ~IsProbabilityVector(policy.val)
              THEN /\ sp' = "error"
                   /\ training_examples' = recorded
                   /\ UNCHANGED <<game_position, s, position, sims>>
              ELSE \E a \in Support(policy.val) :
                   \E next \in {update_game_state(game_position, a)} :
                       IF next.err # "none"
                       THEN /\ sp' = "error"
                            /\ training_examples' = recorded
                            /\ UNCHANGED <<game_position, s, position, sims>>
                       ELSE /\ game_position' = next.val
                            /\ s' = game_state_updated(s, next.val)
                            /\ IF ended(next.val)
                               THEN /\ training_examples' =
                                        assign_rewards(recorded,
                                                       outcome(next.val).winner)
                                    /\ sp' = "returned"
                                    /\ UNCHANGED <<position, sims>>
                               ELSE /\ training_examples' = recorded
                                    /\ position' = next.val
                                    /\ sims' = 0
                                    /\ sp' = "sims"
    /\ UNCHANGED <<codecVars, c_puct, Q, N, visited_nodes, frames, pc, ret,
                   numSearches, call, upd, num_sims, created>>

SelfPlayNext ==
    \/ SelfPlayCall
    \/ SelfPlaySim
    \/ SearchTerminal
    \/ SearchExpand
    \/ SearchSelect
    \/ SearchBackup
    \/ SelfPlayPly

Next ==
    \/ SearchCall
    \/ SearchCallAgain
    \/ SearchTerminal
    \/ SearchExpand
    \/ SearchSelect
    \/ SearchBackup
    \/ GetPolicy
    \/ UpdateCall

Init == CodecInit /\ MctsInit /\ SelfPlayIdle

Spec == Init /\ [][Next]_vars

CodecSpecInit == CodecInit /\ MctsInitWith(Whole(1)) /\ SelfPlayIdle

SpecCodec == CodecSpecInit /\ [][CodecNext]_vars

SpecSelfPlay == Init /\ [][SelfPlayNext]_vars

\* self_play and search run on until they return or raise.
SpecSelfPlayLive == SpecSelfPlay /\ WF_vars(SelfPlayNext)

(***************************************************************************)
(* Claims about the codec, checked under SpecCodec.                        *)
(***************************************************************************)
\* The moves that can be legal in some position, and their move indices.
LegalShapes == {m \in AllMoves : \E p \in Pieces : CanMove(p, m)}

\* The legal moves from one square, and the action ids they are given.
MovesFrom == [a \in Squares |-> {m \in LegalShapes : m.from_square = a}]

IdsFrom == [a \in Squares |-> {get_move_idx(m).val : m \in MovesFrom[a]}]

\* C1: for every move m that can be legal in some position, with a board that
\* holds m's moving piece on the origin square, get_move(board, get_move_idx(m))
\* has the origin square, destination square and promotion piece of m.
C1_RoundTrip ==
    (cOp = "roundtrip" /\ CanMove(cPiece, cMove)) => cOut = Ok(cMove)

\* C2: get_move_idx is total and injective on the moves that can be legal
\* together in one position: the move of a piece and any other move of that
\* piece from the same square, or any move from another square, never get the
\* same action id (so a queen promotion and the three underpromotions of one
\* pawn move get four distinct ids).
C2_Injective ==
    cOp = "encode" =>
        \A p \in Pieces :
            CanMove(p, cMove) =>
                /\ cIdx.err = "none"
                /\ \A x \in MovesFrom[cMove.from_square] :
                       (x # cMove /\ CanMove(p, x)) =>
                           /\ get_move_idx(x).err = "none"
                           /\ get_move_idx(x).val # cIdx.val
                /\ \A a \in Squares \ {cMove.from_square} :
                       cIdx.val \notin IdsFrom[a]

\* C2 witness: the queen promotion of a pawn move has been encoded.
C2_Witness ==
    /\ cOp = "encode"
    /\ cMove.promotion = QUEEN
    /\ CanMove(Piece(PAWN, WHITE), cMove)
    /\ cIdx.err = "none"
    /\ \A u \in {KNIGHT, BISHOP, ROOK} :
           get_move_idx([cMove EXCEPT !.promotion = u]).val # cIdx.val

\* The direction of a ray move, of a knight move, and the number of squares
\* moved along the ray, read off the two squares.
GeomRayDir(a, b) ==
    LET dr == Sign(get_rank(b) - get_rank(a))
        df == Sign(get_file(b) - get_file(a))
    IN  CASE dr = 1 /\ df = -1 -> Ray_NW
          [] dr = 1 /\ df = 0 -> Ray_N
          [] dr = 1 /\ df = 1 -> Ray_NE
          [] dr = 0 /\ df = 1 -> Ray_E
          [] dr = -1 /\ df = 1 -> Ray_SE
          [] dr = -1 /\ df = 0 -> Ray_S
          [] dr = -1 /\ df = -1 -> Ray_SW
          [] OTHER -> Ray_W

GeomKnightDir(a, b) ==
    LET dr == get_rank(b) - get_rank(a)
        df == get_file(b) - get_file(a)
    IN  CASE dr = 2 /\ df = 1 -> NNE
          [] dr = 1 /\ df = 2 -> NEE
          [] dr = -1 /\ df = 2 -> SEE
          [] dr = -2 /\ df = 1 -> SSE
          [] dr = -2 /\ df = -1 -> SSW
          [] dr = -1 /\ df = -2 -> SWW
          [] dr = 1 /\ df = -2 -> NWW
          [] OTHER -> NNW

GeomDistance(a, b) ==
    IF RankDist(a, b) > FileDist(a, b) THEN RankDist(a, b) ELSE FileDist(a, b)

GeomPlane(m) ==
    LET a == m.from_square
        b == m.to_square
        d == GeomRayDir(a, b)
        family == IF d \in {Ray_NW, Ray_SE} THEN 0 ELSE IF d \in {Ray_N, Ray_S} THEN 1 ELSE 2
    IN  IF KnightShape(a, b) THEN 56 + GeomKnightDir(a, b)
        ELSE IF m.promotion \in {KNIGHT, BISHOP, ROOK}
        THEN 64 + 3 * family + (m.promotion - KNIGHT)
        ELSE d * 7 + (GeomDistance(a, b) - 1)

\* C3: for every legal move m, get_move_idx(m) = plane*64 + origin_square with
\* plane in [0, 73), so the id lies in [0, 4672): plane = direction*7 +
\* (distance-1) for a ray move that is no underpromotion, 56 + knight direction
\* for a knight move, 64 + 3*direction family + (promotion - knight) for an
\* underpromotion.
C3_PlaneFormula ==
    (cOp = "encode" /\ cMove \in LegalShapes) =>
        /\ cIdx = Ok(GeomPlane(cMove) * 64 + cMove.from_square)
        /\ GeomPlane(cMove) \in 0 .. 72
        /\ cIdx.val \in 0 .. 4671

\* C4: get_move_idx fails with an error for every pair of squares that is not
\* a chess move shape: neither on a common rank, file or diagonal nor one
\* knight's move apart (origin = destination included).
C4_RejectsNonMoves ==
    (/\ cOp = "encode"
     /\ ~OnLine(cMove.from_square, cMove.to_square)
     /\ ~OnDiagonal(cMove.from_square, cMove.to_square)
     /\ ~KnightShape(cMove.from_square, cMove.to_square))
        => cIdx.err # "none"

\* C5: get_move fails with an error, and returns no move, for every action id
\* whose plane index (id div 64) lies outside [0, 73): every negative id and
\* every id >= 4672.
C5_DecodeRange ==
    (cOp = "decode" /\ (cId < 0 \/ cId >= 4672 \/ (cId \div 64) \notin 0 .. 72))
        => cOut = Raise("ValueError")

\* C5 witness: get_move has been given a negative action id and has failed.
C5_Witness ==
    /\ cOp = "decode"
    /\ cId < 0
    /\ cOut.err = "ValueError"

(***************************************************************************)
(* Claims about __MCTS, checked under Spec.                                *)
(***************************************************************************)
\* get_policy has been called on a root that is expanded and was visited.
PolicyOfVisitedRoot ==
    /\ pc = "policy"
    /\ zobrist_hash(pi.position) \in visited_nodes
    /\ get_node_count(zobrist_hash(pi.position)) >= 1

\* C6: get_policy(root), after searches that expanded and visited the root,
\* returns for every legal action a of the root N[root][a] divided by the sum
\* of the root's visit counts.
C6_PolicyIsVisitCounts ==
    PolicyOfVisitedRoot =>
        LET h == zobrist_hash(pi.position)
        IN  /\ pi.result.err = "none"
            /\ \A a \in Range(generate_moves(pi.position)) :
                   pi.result.val[a] = Frac(N[h][a], get_node_count(h))

\* C7: the vector get_policy returns for an expanded, visited root sums to 1
\* and is exactly 0 at every action id that is not the index of a legal move
\* of the root, whatever mass the model's policy put on illegal actions.
C7_PolicyIsDistribution ==
    PolicyOfVisitedRoot =>
        /\ pi.result.err = "none"
        /\ FSumOver(pi.result.val) = Whole(1)
        /\ \A a \in TrackedActions \ Range(generate_moves(pi.position)) :
               pi.result.val[a] = Whole(0)

\* The reward of a position that has ended for the player to move at it.
RewardOfMover(pos) ==
    LET w == outcome(pos).winner
    IN  IF ~w.some THEN Whole(0)
        ELSE IF w.color = Turn(pos.board) THEN Whole(1) ELSE Whole(-1)

\* C8: search called on a terminal position returns the terminal reward from
\* the perspective of the player to move at that position (+1 won, -1 lost,
\* 0 draw), makes no model query and no recursive call, and leaves every N, Q
\* and P table unchanged.
C8_TerminalReward ==
    (pc = "done" /\ ended(call.root)) =>
        /\ ret = RewardOfMover(call.root)
        /\ call.queries = 0
        /\ call.recursions = 0
        /\ Q = call.Q0 /\ N = call.N0 /\ P = call.P0

\* C9: with model values in [-1, 1], every entry Q[h][a] of every expanded
\* node stays in [-1, 1] after any number of search calls on any positions.
C9_QBounded ==
    \A h \in DOMAIN Q : \A a \in TrackedActions :
        /\ IsFinite(Q[h][a])
        /\ FLeq(Whole(-1), Q[h][a])
        /\ FLeq(Q[h][a], Whole(1))

\* C9 witness: an entry that was updated at least twice lies on the bound.
C9_Witness ==
    \E h \in DOMAIN Q : \E a \in TrackedActions :
        N[h][a] >= 2 /\ Q[h][a] = Whole(1)

\* The visit count of an action when the top-level call in progress was made.
N0At(h, a) == IF h \in DOMAIN call.N0 THEN call.N0[h][a] ELSE 0

\* C10 as stated: no search call decreases any N[a], and each top-level search
\* call increases N by exactly 1 for the action selected at the node of its
\* position and by 0 for every other action of that node.
C10_ExactlyOne ==
    /\ \A h \in DOMAIN N : \A a \in TrackedActions : N[h][a] >= N0At(h, a)
    /\ (pc = "done" /\ call.selected # -1) =>
           LET h == zobrist_hash(call.root)
           IN  \A a \in TrackedActions :
                   N[h][a] = N0At(h, a) + (IF a = call.selected THEN 1 ELSE 0)

\* C10 as amended: no search call decreases any N[a], and each top-level
\* search call increases N of the action selected at the node of its position
\* by 1 for each time its path selects at a position with that node's hash
\* (at least once, and exactly once when the path does not come back to that
\* hash), and by 0 for every other action of that node.
C10_OncePerPass ==
    /\ \A h \in DOMAIN N : \A a \in TrackedActions : N[h][a] >= N0At(h, a)
    /\ (pc = "done" /\ call.selected # -1) =>
           LET h == zobrist_hash(call.root)
           IN  /\ call.rootPasses >= 1
               /\ \A a \in TrackedActions :
                      N[h][a] = N0At(h, a)
                          + (IF a = call.selected THEN call.rootPasses ELSE 0)
    /\ (pc = "done" /\ call.selected = -1) =>
           LET h == zobrist_hash(call.root)
           IN  h \in DOMAIN N => \A a \in TrackedActions : N[h][a] = N0At(h, a)

\* C10 witness: a top-level call has come back to the hash of its root.
C10_Witness ==
    /\ pc = "done"
    /\ call.selected # -1
    /\ call.rootPasses >= 2

(***************************************************************************)
(* Claims about self_play, checked under SpecSelfPlay.                     *)
(***************************************************************************)
\* self_play has made the num_sims searches of its first ply, on a tree that
\* was empty before them.
FirstPlySearched ==
    /\ sp = "sims"
    /\ pc = "done"
    /\ sims = num_sims
    /\ training_examples = <<>>

\* C11: after self_play has run its num_sims search calls for a ply on a fresh
\* tree, the sum of the root position's visit counts equals num_sims, and the
\* root's most-visited action is a legal move of the root.
C11_RootVisits ==
    FirstPlySearched =>
        LET h == zobrist_hash(game_position)
        IN  /\ h \in DOMAIN N
            /\ get_node_count(h) = num_sims
            /\ \A a \in TrackedActions :
                   (\A b \in TrackedActions : N[h][b] <= N[h][a]) =>
                       a \in Range(generate_moves(game_position))

\* C12: self_play called with num_sims < 2 fails with a configuration error
\* before any simulation runs: no search call, no model query, no tree or game
\* state is created and no training example is produced.
C12_RejectsBeforeAnything ==
    (sp # "init" /\ num_sims < 2) =>
        /\ sp = "raised"
        /\ created = {}
        /\ numSearches = 0
        /\ call = NoCall
        /\ visited_nodes = {}
        /\ Q = EmptyTable /\ N = EmptyTable /\ P = EmptyTable
        /\ training_examples = <<>>
        /\ pc = "idle"

\* C12 witness: self_play has been called with num_sims = 1 and has raised.
C12_Witness ==
    /\ sp = "raised"
    /\ num_sims = 1

\* The move update_game_state decoded from the action id it was given.
UpdMove == get_move(piece_at(upd.position.board, upd.a % NUM_SQ), upd.a)

\* C13: when update_game_state is given an action id whose decoded move is
\* not legal in the current position, it raises an error instead of silently
\* leaving the illegal move applied to the position and continuing.
C13_IllegalRaises ==
    (/\ pc = "updated"
     /\ UpdMove.err = "none"
     /\ \A e \in Range(LegalEntries(upd.position.board)) : e.move # UpdMove.val)
        => upd.result.err # "none"

\* The reward of the player of colour `turn` in a game with the given winner.
RewardOfPlayer(winner, turn) ==
    IF ~winner.some THEN 0 ELSE IF winner.color = turn THEN 1 ELSE -1

\* C14: when an episode ends, every recorded training example gets its reward
\* from the game outcome: +1 if it was recorded while the winner (White or
\* Black) was to move, -1 while the loser was to move, 0 in a drawn game.
C14_RewardsFollowOutcome ==
    sp = "returned" =>
        \A i \in DOMAIN training_examples :
            LET example == training_examples[i]
            IN  /\ example.last.rewarded
                /\ example.last.reward =
                       RewardOfPlayer(outcome(game_position).winner,
                                      Turn(example.ply_position.board))

\* C15: for every training example returned by self_play, the state tensor
\* stored in the example is the encoding of the real game position at the ply
\* where the example was recorded, not of a position reached in the search.
C15_ExampleTensorOfPly ==
    sp = "returned" =>
        \A i \in DOMAIN training_examples :
            ExampleTensor(training_examples[i])
                = game_state(training_examples[i].ply_position)

\* C16: every search call returns, and every self_play episode eventually
\* reaches a terminal position, assigns rewards and returns its examples.
C16_Terminates ==
    /\ (pc = "call") ~> (pc = "done")
    /\ (sp = "sims") ~>
           (/\ sp = "returned"
            /\ ended(game_position)
            /\ \A i \in DOMAIN training_examples :
                   training_examples[i].last.rewarded)

\* The position the tensor was computed from last: the position of the game
\* after update_game_state of a ply, the position of the search otherwise.
EncodedPosition == IF sp = "returned" THEN game_position ELSE position

\* C17: the game-state tensor produced by init_game_state and kept up to date
\* by update_game_state always has shape 8x8x21: planes 0..13 hold only 0 or
\* 1, and each of planes 14..20 holds one scalar in all 64 cells: side to move
\* (0 for White, 1 for Black), full-move number, half-move clock and the four
\* castling-right flags (each 0 or 1); no cell is negative.
C17_TensorShape ==
    "s" \in created =>
        /\ s.ones \subseteq
               (0 .. NUM_RANK - 1) \X (0 .. NUM_FILE - 1) \X (0 .. 11)
        /\ DOMAIN s.fill = 12 .. 20
        /\ \E side \in {IF Turn(EncodedPosition.board) = WHITE THEN 0 ELSE 1},
              full \in {fullmove_number(EncodedPosition)},
              half \in {halfmove_clock(EncodedPosition)},
              rights \in {castling_rights(EncodedPosition)} :
               /\ full >= 1
               /\ half >= 0
               /\ \A plane \in 0 .. 13 : PlaneValues(s, plane) \subseteq {0, 1}
               /\ PlaneValues(s, 14) = {side}
               /\ PlaneValues(s, 15) = {full}
               /\ PlaneValues(s, 16) = {half}
               /\ PlaneValues(s, 17) = {IF BB_A1 \in rights THEN 1 ELSE 0}
               /\ PlaneValues(s, 18) = {IF BB_H1 \in rights THEN 1 ELSE 0}
               /\ PlaneValues(s, 19) = {IF BB_A8 \in rights THEN 1 ELSE 0}
               /\ PlaneValues(s, 20) = {IF BB_H8 \in rights THEN 1 ELSE 0}

\* C17 witness: the tensor was updated to a position with Black to move in
\* the second move of the game.
C17_Witness ==
    /\ "s" \in created
    /\ Turn(EncodedPosition.board) = BLACK
    /\ Cell(s, 0, 0, 14) = 1
    /\ Cell(s, 7, 7, 15) = 2
    /\ Cell(s, 3, 3, 16) = 3

(***************************************************************************)
(* Claims about the steps of search, checked under Spec.                   *)
(***************************************************************************)
\* C18: search on a non-terminal position whose hash has not been expanded
\* queries the model once, stores the model's policy as P for that hash, sets
\* N and Q of that hash to 0 for every action, marks the hash expanded, makes
\* no recursive call, leaves the statistics of every other node and the
\* position unchanged, and returns -v for the model's value v.
C18_Expansion ==
    [][ (/\ pc = "call"
         /\ ~ended(position)
         /\ zobrist_hash(position) \notin visited_nodes)
        => LET h == zobrist_hash(position)
           IN  /\ call'.queries = call.queries + 1
               /\ call'.predicted.policy \in PolicyChoices(position)
               /\ call'.predicted.v \in ValueChoices
               /\ P'[h] = call'.predicted.policy
               /\ \A a \in TrackedActions : N'[h][a] = 0 /\ Q'[h][a] = Whole(0)
               /\ visited_nodes' = visited_nodes \cup {h}
               /\ call'.recursions = call.recursions
               /\ frames' = frames
               /\ position' = position
               /\ DOMAIN Q' = DOMAIN Q \cup {h}
               /\ DOMAIN N' = DOMAIN N \cup {h}
               /\ DOMAIN P' = DOMAIN P \cup {h}
               /\ \A g \in DOMAIN Q \ {h} :
                      Q'[g] = Q[g] /\ N'[g] = N[g] /\ P'[g] = P[g]
               /\ ret' = FNeg(call'.predicted.v)
               /\ pc' = (IF frames = <<>> THEN "done" ELSE "return") ]_vars

\* C18 witness: a top-level call has expanded its position and returned the
\* negation of a model value that is not 0.
C18_Witness ==
    /\ pc = "done"
    /\ zobrist_hash(call.root) \notin call.visited0
    /\ zobrist_hash(call.root) \in visited_nodes
    /\ call.queries = 1
    /\ call.recursions = 0
    /\ call.predicted.v = Frac(1, 2)
    /\ ret = Frac(-1, 2)

\* The place of an action in a list of actions (0: not in it).
IndexOf(actions, a) ==
    IF \E i \in DOMAIN actions : actions[i] = a
    THEN CHOOSE i \in DOMAIN actions : actions[i] = a
    ELSE 0

\* C19: at an expanded non-terminal node, search selects, among the legal
\* actions of the position only, the action with the largest
\* Q[a] + c_puct * P[a] * sqrt(sum of N) / (1 + N[a]); of several actions that
\* reach the maximum the first in legal-move generation order is selected (so
\* with all visit counts 0 the first generated legal move is selected).
C19_SelectsBest ==
    (pc = "call" /\ frames # <<>>) =>
        LET f == frames[Len(frames)]
            h == f.position_hash
            actions == generate_moves(Position(h, <<>>))
            k == IndexOf(actions, f.a)
        IN  /\ k >= 1
            /\ \A i \in DOMAIN actions : ~UGreater(h, actions[i], f.a)
            /\ \A i \in 1 .. (k - 1) : UGreater(h, f.a, actions[i])
            /\ get_node_count(h) = 0 => k = 1

\* C19 witness: search has selected a legal move that is not the first one
\* generated, at a node that was visited before.
C19_Witness ==
    /\ pc = "call"
    /\ frames # <<>>
    /\ LET f == frames[Len(frames)]
       IN  /\ get_node_count(f.position_hash) >= 1
           /\ IndexOf(generate_moves(Position(f.position_hash, <<>>)), f.a) >= 2

\* C20: when search at an expanded node selected action a and the recursive
\* call on the child returned v, then on return Q[a] equals
\* (N_old[a]*Q_old[a] + v) / (N_old[a] + 1), N[a] equals N_old[a] + 1, and the
\* call returns -v, so a value is negated exactly once per ply on its way to
\* the root: the value -v of the node expanded at the end of a path of k
\* selections reaches the caller as -v for even k and as v for odd k.
C20_Backup ==
    /\ [][ pc = "return"
           => LET f == frames[Len(frames)]
                  h == f.position_hash
                  a == f.a
                  v == ret
              IN  /\ N'[h][a] = N[h][a] + 1
                  /\ IsFinite(Q'[h][a])
                  /\ FMul(Q'[h][a], Whole(N[h][a] + 1))
                         = FAdd(FMul(Whole(N[h][a]), Q[h][a]), v)
                  /\ \A g \in DOMAIN Q : \A b \in TrackedActions :
                         (g # h \/ b # a) =>
                             Q'[g][b] = Q[g][b] /\ N'[g][b] = N[g][b]
                  /\ P' = P
                  /\ ret' = FNeg(v)
                  /\ frames' = SubSeq(frames, 1, Len(frames) - 1) ]_vars
    /\ [](pc = "done" /\ call.queries = 1 =>
             ret = (IF call.recursions % 2 = 0
                    THEN FNeg(call.predicted.v) ELSE call.predicted.v))

\* C20 witness: a value that is not 0 has come back to the caller through two
\* backups.
C20_Witness ==
    /\ pc = "done"
    /\ call.queries = 1
    /\ call.recursions = 2
    /\ ret = Frac(-1, 2)
    /\ \E h \in DOMAIN N : \E a \in TrackedActions : N[h][a] >= 2

(***************************************************************************)
(* Claims about the simulations of a ply, checked under SpecSelfPlay.      *)
(***************************************************************************)
\* C21: each of the num_sims search calls self_play makes for a ply starts at
\* the position of the game at that ply, and a search call returns with the
\* position it was given as it was when the call was made.
C21_SimsStartAtRoot ==
    (sp = "sims" /\ sims >= 1) =>
        /\ call.root = game_position
        /\ (pc = "done" => position = call.root)

(***************************************************************************)
(* Claims about the nodes of the tree, checked under Spec.                 *)
(***************************************************************************)
\* C22: a node is created once per position hash, by the one model query made
\* for that hash, and is never deleted or initialised again; no step of search
\* and no get_policy call changes the P table of a node that exists; the N and
\* Q tables of a node change only in the backup of a search call that selected
\* an action at that node, and only at the entry of that action.
C22_NodeLifecycle ==
    /\ [](/\ DOMAIN P = visited_nodes
          /\ DOMAIN N = visited_nodes
          /\ DOMAIN Q = visited_nodes)
    /\ [][/\ visited_nodes \subseteq visited_nodes'
          /\ \A h \in visited_nodes :
                 /\ P'[h] = P[h]
                 /\ (N'[h] # N[h] \/ Q'[h] # Q[h]) =>
                        /\ pc = "return"
                        /\ frames # <<>>
                        /\ frames[Len(frames)].position_hash = h
                        /\ \A a \in TrackedActions \ {frames[Len(frames)].a} :
                               N'[h][a] = N[h][a] /\ Q'[h][a] = Q[h][a]
          /\ (visited_nodes' # visited_nodes \/ call'.queries > call.queries) =>
                 /\ pc = "call"
                 /\ zobrist_hash(position) \notin visited_nodes
                 /\ visited_nodes' = visited_nodes \cup {zobrist_hash(position)}
                 /\ call'.queries = call.queries + 1
                 /\ N'[zobrist_hash(position)] = Zeros
                 /\ Q'[zobrist_hash(position)] = FZeros]_vars

\* C22 witness: after get_policy was called for an existing node whose action
\* was visited twice, another node exists too and every prior is as the model
\* gave it.
C22_Witness ==
    /\ pc = "policy"
    /\ pi.result.err = "none"
    /\ Cardinality(visited_nodes) >= 2
    /\ \E h \in visited_nodes : \E a \in TrackedActions : N[h][a] >= 2

(***************************************************************************)
(* Claims about the planes of the tensor, checked under SpecSelfPlay.      *)
(***************************************************************************)
\* The cell the claim names for a piece standing on a square.
PieceCellOf(e, turn) ==
    <<IF turn = WHITE THEN 7 - get_rank(e.sq) ELSE get_rank(e.sq),
      get_file(e.sq),
      (IF e.piece.color = turn THEN 0 ELSE 6) + (e.piece.piece_type - PAWN)>>

\* C23: in the tensor of a position, for every square that holds a piece of
\* type t (pawn to king: 0 to 5) the cell (row, file, plane) is 1, with plane t
\* for a piece of the side to move and 6 + t for the other side, row 7 - rank
\* with White to move and row = rank with Black to move; every other cell of
\* planes 0..11 is 0, so these planes hold as many ones as the board pieces.
C23_PiecePlanes ==
    "s" \in created =>
        \E pieces \in {Placement(EncodedPosition.board)} :
            /\ s.ones = {PieceCellOf(e, Turn(EncodedPosition.board)) : e \in pieces}
            /\ Cardinality(s.ones) = Cardinality(pieces)
            /\ \A e \in pieces :
                   LET c == PieceCellOf(e, Turn(EncodedPosition.board))
                   IN  Cell(s, c[1], c[2], c[3]) = 1

\* C23 witness: with Black to move after White's knight move, the white
\* king on e1 is in row 0 of plane 11 and the black queen on d8 in row 7 of
\* plane 4, among the nine pieces of the board.
C23_Witness ==
    /\ "s" \in created
    /\ EncodedPosition.board = "B1"
    /\ Cell(s, 0, 4, 11) = 1
    /\ Cell(s, 7, 3, 4) = 1
    /\ Cardinality(s.ones) = 9

(***************************************************************************)
(* Claims about the promotions of get_move, checked under SpecCodec.       *)
(***************************************************************************)
\* C24: the move get_move returns for an index of a ray plane (0..55)
\* promotes to a queen exactly when the origin square holds a pawn and the
\* destination is on rank 1 or rank 8, and has no promotion otherwise; for an
\* underpromotion plane p (64..72) it is a move of one square that promotes
\* to a knight, bishop or rook for (p - 64) mod 3 = 0, 1, 2; for a knight
\* plane (56..63) it has no promotion.
C24_Promotions ==
    (cOp = "decode" /\ cOut.err = "none") =>
        LET p == cId \div 64
            m == cOut.val
        IN  /\ m.from_square = cId % 64
            /\ p \in 0 .. 55 =>
                   /\ m.promotion \in {QUEEN, NoPromotion}
                   /\ m.promotion = QUEEN <=>
                          /\ cPiece # NoPiece
                          /\ cPiece.piece_type = PAWN
                          /\ m.to_square \div 8 \in {0, 7}
            /\ p \in 56 .. 63 => m.promotion = NoPromotion
            /\ p \in 64 .. 72 =>
                   /\ m.to_square - m.from_square \in {7, 8, 9, -7, -8, -9}
                   /\ (p - 64) % 3 = 0 => m.promotion = KNIGHT
                   /\ (p - 64) % 3 = 1 => m.promotion = BISHOP
                   /\ (p - 64) % 3 = 2 => m.promotion = ROOK

\* C24 witness: for the white pawn on e7 the index of plane 69 (straight on,
\* third piece) gives the move e7-e8 that promotes to a rook.
C24_Witness ==
    /\ cOp = "decode"
    /\ cPiece = Piece(PAWN, WHITE)
    /\ cId = 69 * 64 + 52
    /\ cOut = Ok(Move(52, 60, ROOK))

(***************************************************************************)
(* Claims about the value of a position that has ended, checked under      *)
(* Spec.                                                                   *)
(***************************************************************************)
\* C25: the value search returns for a position that has ended has magnitude
\* 1 whenever the game has a winner, Black as well as White, and is 0 only
\* when the game is drawn.  (The value keeps its magnitude on the way up
\* through the backups of the call.)
C25_TerminalMagnitude ==
    (pc \in {"return", "done"} /\ ended(position) /\ call.queries = 0) =>
        /\ outcome(position).winner.some => FAbs(ret) = Whole(1)
        /\ ret = Whole(0) => ~outcome(position).winner.some

(***************************************************************************)
(* Claims about the repetition planes, checked under SpecSelfPlay.         *)
(***************************************************************************)
\* C26: plane 12 of the tensor is all ones exactly when is_repetition(1)
\* holds for the position and all zeros otherwise, and plane 13 is all ones
\* exactly when is_repetition(2) holds and all zeros otherwise, each plane on
\* its own query.
C26_RepetitionPlanes ==
    "s" \in created =>
        /\ PlaneValues(s, 12) =
               {IF is_repetition(EncodedPosition, 1) THEN 1 ELSE 0}
        /\ PlaneValues(s, 13) =
               {IF is_repetition(EncodedPosition, 2) THEN 1 ELSE 0}

(***************************************************************************)
(* Claims about the tensor the model is given, checked under SpecSelfPlay. *)
(***************************************************************************)
\* C27: through self_play, the shared tensor s is the encoding of the board
\* that was updated last, which is the board search evaluates next, and the
\* tensor search passes to the model when it expands a node is the encoding
\* of the position it expands.
C27_TensorOfExpanded ==
    "s" \in created =>
        \E encoding \in {game_state(EncodedPosition)} :
            /\ s = encoding
            /\ (sp = "sims" /\ sims >= 1 /\ call.queries >= 1) =>
                   call.predicted.s = encoding

\* C27 witness: a search call of self_play expanded the position after the
\* first move of White, and the model was given the tensor of Black to move.
C27_Witness ==
    /\ sp = "sims"
    /\ sims >= 1
    /\ call.queries = 1
    /\ position = Position("B1", <<"B0">>)
    /\ Cell(call.predicted.s, 0, 0, 14) = 1
    /\ call.predicted.s = game_state(position)

(***************************************************************************)
(* Claims about the plies of self_play, checked under SpecSelfPlay.        *)
(***************************************************************************)
\* self_play has made the searches of a ply and calls get_policy next.
PolicyDue ==
    /\ sp = "sims"
    /\ pc \in {"idle", "done"}
    /\ sims = num_sims

\* self_play has called get_policy at least once.
PolicyCalled == training_examples # <<>> \/ sp = "error"

\* C28: self_play runs its plies with num_sims >= 2 only, and at every ply it
\* calls get_policy(position) only after the hash of the position has been
\* expanded and the visit counts of that node sum to at least 1: get_policy
\* never looks up a missing node and never divides by a visit total of 0.
C28_PolicyPrecondition ==
    /\ PolicyDue =>
           /\ num_sims >= 2
           /\ zobrist_hash(game_position) \in visited_nodes
           /\ zobrist_hash(game_position) \in DOMAIN N
           /\ zobrist_hash(game_position) \in DOMAIN P
           /\ get_node_count(zobrist_hash(game_position)) >= 1
    /\ PolicyCalled =>
           /\ pi.result.err = "none"
           /\ get_node_count(zobrist_hash(pi.position)) >= 1

\* C28 witness: get_policy was called at the second ply, for the position
\* after the first move of White, whose node has been visited.
C28_Witness ==
    /\ Len(training_examples) = 2
    /\ pi.position = Position("B1", <<"B0">>)
    /\ pi.result.err = "none"
    /\ "B1" \in visited_nodes
    /\ get_node_count("B1") >= 1

\* C29: in self_play the position of the game changes only in the one
\* update_game_state call made after the searches of a ply and the sampling:
\* it is then one legal move further, with one more training example
\* recorded; the search calls of the ply work on a copy and leave the board,
\* the side to move and the move history of the game as they were, so the
\* game has as many moves as plies were played.
C29_GameAdvancesByPly ==
    /\ [](sp \in {"sims", "returned"} =>
              Len(game_position.stack) = Len(training_examples))
    /\ [][game_position' # game_position =>
              /\ PolicyDue
              /\ Len(training_examples') = Len(training_examples) + 1
              /\ \E a \in Range(generate_moves(game_position)) :
                     update_game_state(game_position, a) = Ok(game_position')
              /\ Len(game_position'.stack) = Len(game_position.stack) + 1]_vars

\* C29 witness: in the second ply a search call has played a move on its
\* copy, two moves into the game, while the game is one move old.
C29_Witness ==
    /\ sp = "sims"
    /\ pc = "done"
    /\ Len(training_examples) = 1
    /\ game_position = Position("B1", <<"B0">>)
    /\ position = Position("B2", <<"B0", "B1">>)

\* C30: once a training example is recorded, nothing self_play does later
\* changes its state tensor or its policy vector; only its last field
\* changes, once, from the player to move to the reward, when the episode
\* ends: the examples of different plies keep their own snapshots.
C30_ExamplesKeepSnapshots ==
    [][\A i \in DOMAIN training_examples :
           /\ i \in DOMAIN training_examples'
           /\ ExampleTensor(training_examples[i])'
                  = ExampleTensor(training_examples[i])
           /\ training_examples'[i].pi = training_examples[i].pi
           /\ training_examples'[i].last # training_examples[i].last =>
                  /\ ~training_examples[i].last.rewarded
                  /\ training_examples'[i].last.rewarded
                  /\ sp' = "returned"]_vars

====
